---- MODULE Spec2Model ----
(***************************************************************************)
(* Model of CustodialHttpTransport.inbound_message_handler                 *)
(* (aries_cloudagent/transport/inbound/http_custodial.py).                 *)
(*                                                                         *)
(* One logical task per inbound exchange runs the handler.  The handler    *)
(* is cut at its await points; the code between two awaits runs without    *)
(* interleaving (asyncio's cooperative scheduling), so each action below   *)
(* is one such stretch.  The session object (InboundSession), the wallet   *)
(* handler and the dispatcher are collaborators whose code is not part of  *)
(* the transport file; their operations are modelled from the design       *)
(* document and are named Session*, WalletHandler* and Deliver.            *)
(***************************************************************************)
EXTENDS Integers, Sequences, FiniteSets, TLC

\* ------------------------------------------------------------------ bounds
NumExchanges == 2        \* concurrent inbound exchanges
MaxDelivers == 2         \* cap on the deliveries one exchange may accept

Exchanges == 1..NumExchanges
Tenants == {"w1", "w2"}

\* ---------------------------------------------------------- program values
WalletHandlerPlugin == "aries_cloudagent.wallet_handler"
OtherPlugin == "other.plugin"

\* Values of settings.get_value("external_plugins"): None or a list.
PluginConfigs ==
    { [isNone |-> TRUE,  items |-> <<>>],
      [isNone |-> FALSE, items |-> <<>>],
      [isNone |-> FALSE, items |-> <<OtherPlugin>>],
      [isNone |-> FALSE, items |-> <<OtherPlugin, WalletHandlerPlugin>>] }

\* Variant: tenant routing taken to be enabled whatever the configuration.
RoutingAlwaysEnabled(ext) == TRUE

\* Python: ext_plugins and 'aries_cloudagent.wallet_handler' in ext_plugins
RoutingEnabled(ext) ==
    /\ ~ext.isNone
    /\ Len(ext.items) > 0
    /\ \E i \in 1..Len(ext.items) : ext.items[i] = WalletHandlerPlugin

\* Payloads the dispatcher may hand over: bytes or str, empty or not.
NoPayload == [type |-> "none", data |-> ""]
Payloads ==
    { [type |-> "bytes", data |-> ""], [type |-> "bytes", data |-> "wire"],
      [type |-> "str",   data |-> ""], [type |-> "str",   data |-> "ack"] }

\* Variant: `if response is not None` in place of `if response`.
TruthyIsNotNone(p) == p.type # "none"

\* Python truthiness of the value wait_response returned.
Truthy(p) == p.type # "none" /\ p.data # ""

\* Contexts are references into a heap; BaseCtx is the process-wide default
\* context, CopyOf(e) the object session.context.copy() creates in exchange e.
BaseCtx == 0
CopyOf(e) == e
CtxRefs == {BaseCtx} \cup Exchanges
NoWallet == "none"
Unallocated == [alloc |-> FALSE, wallet |-> NoWallet]
FreshBase == [alloc |-> TRUE, wallet |-> NoWallet]

\* HTTP results written back to the peer.
HTTP_OK == 200
HTTP_BAD_REQUEST == 400
WireContentType == "application/ssi-agent-wire"
JsonContentType == "application/json"
NoResult == [status |-> 0, kind |-> "none", body |-> "", ctype |-> ""]
EmptyResponse(st) == [status |-> st, kind |-> "none", body |-> "", ctype |-> ""]
\* The handler raised something other than an HTTP exception: the web server
\* answers with a server fault.
ServerFault == EmptyResponse(500)
\* The handler task was cancelled: nothing is written back.
Aborted == [status |-> 0, kind |-> "aborted", body |-> "", ctype |-> ""]

\* ------------------------------------------------------------ the request
\* Text is a sequence of one-character strings, so that split and lower
\* work on characters as Python's do.
UpperLetters == <<"A", "B", "C", "D", "E", "F", "G", "H", "I", "J", "K", "L", "M", "N", "O", "P", "Q", "R", "S", "T", "U", "V", "W", "X", "Y", "Z">>
LowerLetters == <<"a", "b", "c", "d", "e", "f", "g", "h", "i", "j", "k", "l", "m", "n", "o", "p", "q", "r", "s", "t", "u", "v", "w", "x", "y", "z">>
Semicolon == ";"

\* str.lower() on one character and on a text.
LowerOf ==
    [ch \in {UpperLetters[i] : i \in DOMAIN UpperLetters} |->
        LowerLetters[CHOOSE i \in DOMAIN UpperLetters : UpperLetters[i] = ch]]
LowerChar(ch) == IF ch \in DOMAIN LowerOf THEN LowerOf[ch] ELSE ch
Lower(t) == [i \in 1..Len(t) |-> LowerChar(t[i])]

\* t.split(sep, 1)[0]: the text before the first separator, all of it when
\* there is none.
SplitFirst(t, sep) ==
    LET hits == {i \in 1..Len(t) : t[i] = sep}
    IN  IF hits = {} THEN t
        ELSE SubSeq(t, 1, (CHOOSE i \in hits : \A j \in hits : i <= j) - 1)

ApplicationJson == <<"a", "p", "p", "l", "i", "c", "a", "t", "i", "o", "n", "/", "j", "s", "o", "n">>

\* Content-type headers of inbound requests (absent: no such header).
ContentTypes ==
    { <<"a", "p", "p", "l", "i", "c", "a", "t", "i", "o", "n", "/", "j", "s", "o", "n">>,
      <<"A", "p", "p", "l", "i", "c", "a", "t", "i", "o", "n", "/", "J", "S", "O", "N">>,
      <<"a", "p", "p", "l", "i", "c", "a", "t", "i", "o", "n", "/", "j", "s", "o", "n", ";", " ", "c", "h", "a", "r", "s", "e", "t", "=", "u", "t", "f", "-", "8">>,
      <<"A", "P", "P", "L", "I", "C", "A", "T", "I", "O", "N", "/", "J", "S", "O", "N", ";", "q", "=", "1", ";", "v">>,
      <<"a", "p", "p", "l", "i", "c", "a", "t", "i", "o", "n", "/", "j", "s", "o", "n", " ", ";", "c", "h", "a", "r", "s", "e", "t", "=", "u", "t", "f", "-", "8">>,
      <<" ", "a", "p", "p", "l", "i", "c", "a", "t", "i", "o", "n", "/", "j", "s", "o", "n">>,
      <<"a", "p", "p", "l", "i", "c", "a", "t", "i", "o", "n", "/", "j", "s", "o", "n", "x">>,
      <<"a", "p", "p", "l", "i", "c", "a", "t", "i", "o", "n", "/", "j", "s", "o">>,
      <<"a", "p", "p", "l", "i", "c", "a", "t", "i", "o", "n", "/", "s", "s", "i", "-", "a", "g", "e", "n", "t", "-", "w", "i", "r", "e">>,
      <<";", "a", "p", "p", "l", "i", "c", "a", "t", "i", "o", "n", "/", "j", "s", "o", "n">>,
      <<"t", "e", "x", "t", "/", "p", "l", "a", "i", "n", ";", " ", "a", "p", "p", "l", "i", "c", "a", "t", "i", "o", "n", "/", "j", "s", "o", "n">>,
      <<>> }
NoHeader == [present |-> FALSE, value |-> <<>>]
Headers == {NoHeader} \cup {[present |-> TRUE, value |-> v] : v \in ContentTypes}

\* Raw request contents, by name.
Contents == {"packed-message", "not-a-message"}
Requests == [header : Headers, content : Contents]
DefaultRequest ==
    [header |-> [present |-> TRUE, value |-> <<"a", "p", "p", "l", "i", "c", "a", "t", "i", "o", "n", "/", "s", "s", "i", "-", "a", "g", "e", "n", "t", "-", "w", "i", "r", "e">>],
     content |-> "packed-message"]

\* Line 89: request.headers.get("content-type", "")
HeaderGet(req) == IF req.header.present THEN req.header.value ELSE <<>>

\* Variant: the header is compared whole, parameters included.
ReadBodyWithoutSplit(req) ==
    IF Lower(HeaderGet(req)) = ApplicationJson
    THEN [type |-> "str", data |-> req.content]
    ELSE [type |-> "bytes", data |-> req.content]

\* Lines 89-90: the test on the content type, settled once for every
\* request there is.
IsJson(req) == Lower(SplitFirst(HeaderGet(req), Semicolon)) = ApplicationJson
JsonRequests == {req \in Requests : IsJson(req)}

\* Lines 89-93: the body is request.text() for application/json and
\* request.read() otherwise.
ReadBody(req) ==
    IF req \in JsonRequests
    THEN [type |-> "str", data |-> req.content]
    ELSE [type |-> "bytes", data |-> req.content]
NoBody == [type |-> "none", data |-> ""]
NothingHanded == [resolver |-> NoBody, receive |-> NoBody]

\* Candidate lists get_wallet_by_msg may return: none, one, several.
CandidateLists == { <<>>, <<"w1">>, <<"w2", "w1">> }

VARIABLES
    settings,      \* external_plugins of the base context's settings
    request,       \* per exchange: the inbound request (header, content)
    body,          \* handler local: the body read from the request
    handed,        \* per exchange: the body the resolver and receive were given
    pc,            \* position of each exchange's handler task
    context,       \* session.context: reference held by each session
    heap,          \* contents of every context object
    can_respond,   \* session.can_respond
    closed,        \* the session has been closed
    released,      \* number of times the session's resources were released
    falls,         \* number of true->false changes of can_respond
    buffer,        \* payload handed over by the dispatcher, not yet cleared
    wallet_ids,    \* handler local: candidates returned by the resolver
    inbound,       \* handler local: what session.receive returned
    response,      \* handler local: what session.wait_response returned
    path,          \* exit path the exchange took
    result,        \* what is written back to the peer
    calls,         \* per exchange: how often each collaborator call was made
    recvCtx,       \* context reference session.receive unpacked with
    opened,        \* tenants whose store is open (tenant-context cache)
    opens,         \* per tenant: number of underlying store opens performed
    accepted,      \* per exchange: number of deliveries that returned true
    lastDeliver    \* the most recent delivery attempt and its return value

vars == <<settings, request, body, handed, pc, context, heap, can_respond, closed, released, falls,
          buffer, wallet_ids, inbound, response, path, result, calls,
          recvCtx, opened, opens, accepted, lastDeliver>>

sessionVars == <<context, can_respond, closed, released, falls, buffer>>

NotParsed == [parsed |-> FALSE, direct_response_requested |-> FALSE]
\* Where a handler task can be suspended: the awaits of lines 91/93, 98, 108,
\* 109, 113, 115 (__aenter__), 118, 123 and 115 (__aexit__).
ReadPc == "read"
AwaitsBeforeSession == {ReadPc, "create_session"}
AwaitsBeforeBlock == {"inject", "resolve", "set_instance", "enter"}
AwaitsInBlock == {"receive", "awaiting"}

\* Exit paths on which create_session never returned a session.
NoSessionPaths == {"read_error", "create_error", "cancelled_read", "cancelled_create_session"}

\* create_session has returned the exchange's session.
SessionExists(e) == pc[e] \notin AwaitsBeforeSession /\ path[e] \notin NoSessionPaths

NoCalls == [resolve |-> 0, set_instance |-> 0, receive |-> 0, wait |-> 0, clear |-> 0]

\* The given requests have arrived: each handler has looked at the content
\* type (line 89) and is suspended in request.text() / request.read().
InitWith(reqs) ==
    /\ settings \in PluginConfigs
    /\ request = reqs
    /\ body = [e \in Exchanges |-> NoBody]
    /\ handed = [e \in Exchanges |-> NothingHanded]
    /\ pc = [e \in Exchanges |-> "read"]
    /\ context = [e \in Exchanges |-> BaseCtx]
    /\ heap = [c \in CtxRefs |-> IF c = BaseCtx THEN FreshBase ELSE Unallocated]
    /\ can_respond = [e \in Exchanges |-> TRUE]
    /\ closed = [e \in Exchanges |-> FALSE]
    /\ released = [e \in Exchanges |-> 0]
    /\ falls = [e \in Exchanges |-> 0]
    /\ buffer = [e \in Exchanges |-> NoPayload]
    /\ wallet_ids = [e \in Exchanges |-> <<>>]
    /\ inbound = [e \in Exchanges |-> NotParsed]
    /\ response = [e \in Exchanges |-> NoPayload]
    /\ path = [e \in Exchanges |-> "none"]
    /\ result = [e \in Exchanges |-> NoResult]
    /\ calls = [e \in Exchanges |-> NoCalls]
    /\ recvCtx = [e \in Exchanges |-> BaseCtx]
    /\ opened = {}
    /\ opens = [t \in Tenants |-> 0]
    /\ accepted = [e \in Exchanges |-> 0]
    /\ lastDeliver = [ex |-> 0, ret |-> FALSE]

Init == InitWith([e \in Exchanges |-> DefaultRequest])

\* ------------------------------------------------ collaborators (session)

\* InboundSession.close(), reached through __aexit__: idempotent, releases
\* the session's resources and ends the possibility of a reply.
SessionClose(e) ==
    IF closed[e]
    THEN UNCHANGED <<closed, released, can_respond, falls, buffer>>
    ELSE /\ closed' = [closed EXCEPT ![e] = TRUE]
         /\ released' = [released EXCEPT ![e] = @ + 1]
         /\ can_respond' = [can_respond EXCEPT ![e] = FALSE]
         /\ falls' = [falls EXCEPT ![e] = IF can_respond[e] THEN @ + 1 ELSE @]
         /\ buffer' = [buffer EXCEPT ![e] = NoPayload]

\* A task is blocked in wait_response and nothing was handed over yet.
WaiterPresent(e) ==
    /\ pc[e] = "awaiting"
    /\ buffer[e] = NoPayload
    /\ can_respond[e]
    /\ ~closed[e]

\* The dispatcher's deliver(exchangeId, payload) -> bool, where a waiter
\* takes the payload: returns true.
DeliverAccepted(e, p) ==
    /\ SessionExists(e)
    /\ accepted[e] < MaxDelivers
    /\ WaiterPresent(e)
    /\ buffer' = [buffer EXCEPT ![e] = p]
    /\ accepted' = [accepted EXCEPT ![e] = @ + 1]
    /\ lastDeliver' = [ex |-> e, ret |-> TRUE]
    /\ UNCHANGED <<settings, request, body, handed, inbound, pc, context,
                   heap, can_respond, closed, released, falls, wallet_ids,
                   path, result, calls, recvCtx, opened, response, opens>>

\* deliver(exchangeId, payload) -> bool, where nobody takes the payload:
\* returns false, whatever the payload; it never blocks.
DeliverDropped(e) ==
    /\ SessionExists(e)
    /\ ~WaiterPresent(e)
    /\ lastDeliver' = [ex |-> e, ret |-> FALSE]
    /\ UNCHANGED <<settings, request, body, handed, inbound, pc, context,
                   heap, can_respond, closed, released, falls, buffer,
                   wallet_ids, path, result, calls, recvCtx, opened,
                   accepted, response, opens>>

\* InboundSession.wait_response(): the blocked task resumes with the payload
\* once one was handed over ...
SessionWaitReady(e) == buffer[e] # NoPayload

\* ... or resumes with nothing when the (default) timeout elapses first.
SessionWaitTimedOut(e) == buffer[e] = NoPayload

\* WalletHandler.set_instance(wallet, context): opens the tenant's store if
\* it is not open yet and binds the tenant to the given context object.
WalletHandlerSetInstance(t, c) ==
    /\ opened' = opened \cup {t}
    /\ opens' = [opens EXCEPT ![t] = IF t \in opened THEN @ ELSE @ + 1]
    /\ heap' = [heap EXCEPT ![c].wallet = t]

\* ------------------------------------------------------------ the handler

\* The handler leaves by an exception raised before the session block was
\* entered: nothing closes the session, the peer sees a server fault.
Fail(e, why) ==
    /\ pc' = [pc EXCEPT ![e] = "done"]
    /\ path' = [path EXCEPT ![e] = why]
    /\ result' = [result EXCEPT ![e] = ServerFault]

\* Lines 91/93, the body read raises.
ReadRaises(e) ==
    /\ pc[e] = ReadPc
    /\ Fail(e, "read_error")
    /\ UNCHANGED <<settings, request, body, handed, inbound, context, heap,
                   can_respond, closed, released, falls, buffer, wallet_ids,
                   calls, recvCtx, opened, accepted, lastDeliver, response,
                   opens>>

\* Lines 89-98: request.text() / request.read() returns the body, then
\* create_session is called.
ReadReturns(e) ==
    /\ pc[e] = ReadPc
    /\ body' = [body EXCEPT ![e] = ReadBody(request[e])]
    /\ pc' = [pc EXCEPT ![e] = "create_session"]
    /\ UNCHANGED <<settings, request, handed, inbound, context, heap,
                   can_respond, closed, released, falls, buffer, wallet_ids,
                   path, result, calls, recvCtx, opened, accepted,
                   lastDeliver, response, opens>>

\* Line 98, create_session raises: there is no session.
CreateSessionRaises(e) ==
    /\ pc[e] = "create_session"
    /\ Fail(e, "create_error")
    /\ UNCHANGED <<settings, request, body, handed, inbound, context, heap,
                   can_respond, closed, released, falls, buffer, wallet_ids,
                   calls, recvCtx, opened, accepted, lastDeliver, response,
                   opens>>

\* Lines 98-108: create_session returns the session, with can_respond=True
\* on the default context.  If the wallet-handler plugin is listed the
\* wallet handler is injected (line 108), otherwise the session block is
\* entered (line 115, __aenter__).
CreateSession(e) ==
    /\ pc[e] = "create_session"
    /\ context' = [context EXCEPT ![e] = BaseCtx]
    /\ can_respond' = [can_respond EXCEPT ![e] = TRUE]
    /\ pc' = [pc EXCEPT ![e] = IF RoutingEnabled(settings) THEN "inject" ELSE "enter"]
    /\ UNCHANGED <<settings, request, body, handed, inbound, heap, closed,
                   released, falls, buffer, wallet_ids, path, result, calls,
                   recvCtx, opened, accepted, lastDeliver, response, opens>>

\* Line 108, inject raises: the resolver is never called.
InjectRaises(e) ==
    /\ pc[e] = "inject"
    /\ Fail(e, "inject_error")
    /\ UNCHANGED <<settings, request, body, handed, inbound, context, heap,
                   can_respond, closed, released, falls, buffer, wallet_ids,
                   calls, recvCtx, opened, accepted, lastDeliver, response,
                   opens>>

\* Lines 108-109: inject returns the wallet handler and get_wallet_by_msg
\* is called with the body; the handler is suspended until it answers.
InjectReturns(e) ==
    /\ pc[e] = "inject"
    /\ handed' = [handed EXCEPT ![e].resolver = body[e]]
    /\ calls' = [calls EXCEPT ![e].resolve = @ + 1]
    /\ pc' = [pc EXCEPT ![e] = "resolve"]
    /\ UNCHANGED <<settings, request, body, inbound, context, heap,
                   can_respond, closed, released, falls, buffer, wallet_ids,
                   path, result, recvCtx, opened, accepted, lastDeliver,
                   response, opens>>

\* Line 109, get_wallet_by_msg raises: the handler ends there.
ResolveRaises(e) ==
    /\ pc[e] = "resolve"
    /\ Fail(e, "resolver_error")
    /\ UNCHANGED <<settings, request, body, handed, inbound, context, heap,
                   can_respond, closed, released, falls, buffer, wallet_ids,
                   calls, recvCtx, opened, accepted, lastDeliver, response,
                   opens>>

\* Variant: set_instance is called without await, so it never runs and the
\* handler goes on to the session block at once.
ResolveReturnsNoAwait(e, ids) ==
    /\ pc[e] = "resolve"
    /\ wallet_ids' = [wallet_ids EXCEPT ![e] = ids]
    /\ context' = [context EXCEPT ![e] = CopyOf(e)]
    /\ heap' = [heap EXCEPT ![CopyOf(e)] = heap[context[e]]]
    /\ IF ids = <<>>
       THEN /\ UNCHANGED calls
            /\ Fail(e, "no_candidate")
       ELSE /\ calls' = [calls EXCEPT ![e].set_instance = @ + 1]
            /\ pc' = [pc EXCEPT ![e] = "enter"]
            /\ UNCHANGED <<path, result>>
    /\ UNCHANGED <<settings, request, body, handed, inbound, response,
                   can_respond, closed, released, falls, buffer, recvCtx,
                   opened, opens, accepted, lastDeliver>>

\* Variant: line 110 missing, the session keeps the shared context and
\* set_instance is handed that one.
ResolveReturnsWithoutCopy(e, ids) ==
    /\ pc[e] = "resolve"
    /\ wallet_ids' = [wallet_ids EXCEPT ![e] = ids]
    /\ IF ids = <<>>
       THEN /\ UNCHANGED calls
            /\ Fail(e, "no_candidate")
       ELSE /\ calls' = [calls EXCEPT ![e].set_instance = @ + 1]
            /\ pc' = [pc EXCEPT ![e] = "set_instance"]
            /\ UNCHANGED <<path, result>>
    /\ UNCHANGED <<settings, request, body, handed, inbound, context, heap,
                   can_respond, closed, released, falls, buffer, recvCtx,
                   opened, accepted, lastDeliver, response, opens>>

\* Lines 109-113, get_wallet_by_msg returns ids: the session's context is
\* replaced by a copy, then wallet_ids[0] is taken (IndexError on an empty
\* list) and set_instance is called with it and the copy; the handler is
\* suspended until set_instance answers.
ResolveReturns(e, ids) ==
    /\ pc[e] = "resolve"
    /\ wallet_ids' = [wallet_ids EXCEPT ![e] = ids]
    /\ context' = [context EXCEPT ![e] = CopyOf(e)]
    /\ heap' = [heap EXCEPT ![CopyOf(e)] = heap[context[e]]]
    /\ IF ids = <<>>
       THEN /\ UNCHANGED calls
            /\ Fail(e, "no_candidate")
       ELSE /\ calls' = [calls EXCEPT ![e].set_instance = @ + 1]
            /\ pc' = [pc EXCEPT ![e] = "set_instance"]
            /\ UNCHANGED <<path, result>>
    /\ UNCHANGED <<settings, request, body, handed, inbound, can_respond,
                   closed, released, falls, buffer, recvCtx, opened, accepted,
                   lastDeliver, response, opens>>

\* Variant: the last candidate is bound instead of the first.
SetInstanceBindsLast(e) ==
    /\ pc[e] = "set_instance"
    /\ WalletHandlerSetInstance(wallet_ids[e][Len(wallet_ids[e])], context[e])
    /\ pc' = [pc EXCEPT ![e] = "enter"]
    /\ UNCHANGED <<settings, request, body, handed, inbound, context,
                   can_respond, closed, released, falls, buffer, wallet_ids,
                   path, result, calls, recvCtx, accepted, lastDeliver,
                   response>>

\* Lines 113-115, set_instance(wallet_ids[0], session.context) completes and
\* the session block is entered (__aenter__).
SetInstanceReturns(e) ==
    /\ pc[e] = "set_instance"
    /\ WalletHandlerSetInstance(wallet_ids[e][1], context[e])
    /\ pc' = [pc EXCEPT ![e] = "enter"]
    /\ UNCHANGED <<settings, request, body, handed, context, can_respond,
                   closed, released, falls, buffer, wallet_ids, inbound,
                   path, result, calls, recvCtx, accepted, lastDeliver,
                   response>>

\* Line 113, set_instance raises (unknown tenant, store cannot be opened).
SetInstanceRaises(e) ==
    /\ pc[e] = "set_instance"
    /\ Fail(e, "store_error")
    /\ UNCHANGED <<settings, request, body, handed, inbound, context, heap,
                   can_respond, closed, released, falls, buffer, wallet_ids,
                   calls, recvCtx, opened, accepted, lastDeliver, response,
                   opens>>

\* Lines 115-118: __aenter__ returns and receive is called with the body.
EnterSession(e) ==
    /\ pc[e] = "enter"
    /\ handed' = [handed EXCEPT ![e].receive = body[e]]
    /\ pc' = [pc EXCEPT ![e] = "receive"]
    /\ calls' = [calls EXCEPT ![e].receive = @ + 1]
    /\ recvCtx' = [recvCtx EXCEPT ![e] = context[e]]
    /\ UNCHANGED <<settings, request, body, context, heap, can_respond,
                   closed, released, falls, buffer, wallet_ids, inbound,
                   path, result, opened, accepted, lastDeliver, response,
                   opens>>

\* Variant: the except clause is missing, MessageParseError leaves the
\* handler as it is and the peer sees a server fault.
ReceiveParseErrorUnhandled(e) ==
    /\ pc[e] = "receive"
    /\ pc' = [pc EXCEPT ![e] = "exiting"]
    /\ path' = [path EXCEPT ![e] = "parse_error"]
    /\ result' = [result EXCEPT ![e] = ServerFault]
    /\ UNCHANGED <<settings, request, body, handed, inbound, context, heap,
                   can_respond, closed, released, falls, buffer, wallet_ids,
                   calls, recvCtx, opened, accepted, lastDeliver, response,
                   opens>>

\* Lines 118-120: receive raises MessageParseError -> HTTPBadRequest.
ReceiveParseError(e) ==
    /\ pc[e] = "receive"
    /\ pc' = [pc EXCEPT ![e] = "exiting"]
    /\ path' = [path EXCEPT ![e] = "parse_error"]
    /\ result' = [result EXCEPT ![e] = EmptyResponse(HTTP_BAD_REQUEST)]
    /\ UNCHANGED <<settings, request, body, handed, inbound, context, heap,
                   can_respond, closed, released, falls, buffer, wallet_ids,
                   calls, recvCtx, opened, accepted, lastDeliver, response,
                   opens>>

\* Variant: lines 126-127 stand after the `if` of line 122 instead of in
\* it, so the handler ends responding and clears the response also when no
\* direct response was requested.
ReceiveReturnsClearsAlways(e, direct_response_requested) ==
    /\ pc[e] = "receive"
    /\ inbound' = [inbound EXCEPT ![e] = [parsed |-> TRUE,
                       direct_response_requested |-> direct_response_requested]]
    /\ IF direct_response_requested
       THEN /\ pc' = [pc EXCEPT ![e] = "awaiting"]
            /\ calls' = [calls EXCEPT ![e].wait = @ + 1]
            /\ UNCHANGED <<path, can_respond, falls, buffer>>
       ELSE /\ pc' = [pc EXCEPT ![e] = "exiting"]
            /\ path' = [path EXCEPT ![e] = "no_response"]
            /\ calls' = [calls EXCEPT ![e].clear = @ + 1]
            /\ can_respond' = [can_respond EXCEPT ![e] = FALSE]
            /\ falls' = [falls EXCEPT ![e] = IF can_respond[e] THEN @ + 1 ELSE @]
            /\ buffer' = [buffer EXCEPT ![e] = NoPayload]
    /\ UNCHANGED <<settings, request, body, handed, context, heap,
                   closed, released, wallet_ids, result, recvCtx, opened,
                   accepted, lastDeliver, response, opens>>

\* Variant: line 122 missing, the handler waits for a response whatever
\* the receipt says.
ReceiveReturnsAlwaysWaits(e, direct_response_requested) ==
    /\ pc[e] = "receive"
    /\ inbound' = [inbound EXCEPT ![e] = [parsed |-> TRUE,
                       direct_response_requested |-> direct_response_requested]]
    /\ pc' = [pc EXCEPT ![e] = "awaiting"]
    /\ calls' = [calls EXCEPT ![e].wait = @ + 1]
    /\ UNCHANGED <<settings, request, body, handed, context, heap,
                   can_respond, closed, released, falls, buffer, wallet_ids,
                   path, result, recvCtx, opened, accepted, lastDeliver,
                   response, opens>>

\* Lines 118-123: receive returns the parsed message; wait_response is
\* called if its receipt asks for a direct response, else the block is left.
ReceiveReturns(e, direct_response_requested) ==
    /\ pc[e] = "receive"
    /\ inbound' = [inbound EXCEPT ![e] = [parsed |-> TRUE,
                       direct_response_requested |-> direct_response_requested]]
    /\ IF direct_response_requested
       THEN /\ pc' = [pc EXCEPT ![e] = "awaiting"]
            /\ calls' = [calls EXCEPT ![e].wait = @ + 1]
            /\ UNCHANGED path
       ELSE /\ pc' = [pc EXCEPT ![e] = "exiting"]
            /\ path' = [path EXCEPT ![e] = "no_response"]
            /\ UNCHANGED calls
    /\ UNCHANGED <<settings, request, body, handed, context, heap,
                   can_respond, closed, released, falls, buffer, wallet_ids,
                   result, recvCtx, opened, accepted, lastDeliver, response,
                   opens>>

\* Lines 129-141: the response built from what wait_response returned.
ResponseFor(r) ==
    IF Truthy(r)
    THEN IF r.type = "bytes"
         THEN [status |-> HTTP_OK, kind |-> "bytes", body |-> r.data,
               ctype |-> WireContentType]
         ELSE [status |-> HTTP_OK, kind |-> "text", body |-> r.data,
               ctype |-> JsonContentType]
    ELSE NoResult

\* Variant: the handler waits again when wait_response returned nothing
\* usable.
AfterWaitWaitsAgain(e, r, why) ==
    /\ pc[e] = "awaiting"
    /\ response' = [response EXCEPT ![e] = r]
    /\ can_respond' = [can_respond EXCEPT ![e] = FALSE]
    /\ falls' = [falls EXCEPT ![e] = IF can_respond[e] THEN @ + 1 ELSE @]
    /\ buffer' = [buffer EXCEPT ![e] = NoPayload]
    /\ result' = [result EXCEPT ![e] = ResponseFor(r)]
    /\ IF ~Truthy(r) /\ calls[e].wait < 2
       THEN /\ calls' = [calls EXCEPT ![e].clear = 1, ![e].wait = @ + 1]
            /\ UNCHANGED <<pc, path>>
       ELSE /\ calls' = [calls EXCEPT ![e].clear = 1]
            /\ path' = [path EXCEPT ![e] = why]
            /\ pc' = [pc EXCEPT ![e] = "exiting"]
    /\ UNCHANGED <<settings, request, body, handed, inbound, context, heap,
                   closed, released, wallet_ids, recvCtx, opened, opens,
                   accepted, lastDeliver>>

\* Variant: lines 126-127 missing, the session keeps accepting responses.
AfterWaitKeepsResponding(e, r, why) ==
    /\ pc[e] = "awaiting"
    /\ response' = [response EXCEPT ![e] = r]
    /\ result' = [result EXCEPT ![e] = ResponseFor(r)]
    /\ path' = [path EXCEPT ![e] = why]
    /\ pc' = [pc EXCEPT ![e] = "exiting"]
    /\ UNCHANGED <<settings, request, body, handed, inbound, context, heap,
                   can_respond, falls, buffer, calls, closed, released,
                   wallet_ids, recvCtx, opened, accepted, lastDeliver,
                   opens>>

\* Lines 123-141: wait_response returned r, kept in `response`; no more
\* responses.
AfterWait(e, r, why) ==
    /\ pc[e] = "awaiting"
    /\ response' = [response EXCEPT ![e] = r]
    /\ can_respond' = [can_respond EXCEPT ![e] = FALSE]
    /\ falls' = [falls EXCEPT ![e] = IF can_respond[e] THEN @ + 1 ELSE @]
    /\ buffer' = [buffer EXCEPT ![e] = NoPayload]
    /\ calls' = [calls EXCEPT ![e].clear = @ + 1]
    /\ result' = [result EXCEPT ![e] = ResponseFor(r)]
    /\ path' = [path EXCEPT ![e] = why]
    /\ pc' = [pc EXCEPT ![e] = "exiting"]
    /\ UNCHANGED <<settings, request, body, handed, inbound, context, heap,
                   closed, released, wallet_ids, recvCtx, opened, accepted,
                   lastDeliver, opens>>

\* wait_response returns the payload the dispatcher handed over.
WaitReturns(e) ==
    /\ SessionWaitReady(e)
    /\ AfterWait(e, buffer[e], IF Truthy(buffer[e]) THEN "replied" ELSE "empty_reply")

\* Variant: a wait that timed out is answered as a fault.
WaitTimesOutIsFault(e) ==
    /\ pc[e] = "awaiting"
    /\ SessionWaitTimedOut(e)
    /\ response' = [response EXCEPT ![e] = NoPayload]
    /\ can_respond' = [can_respond EXCEPT ![e] = FALSE]
    /\ falls' = [falls EXCEPT ![e] = IF can_respond[e] THEN @ + 1 ELSE @]
    /\ buffer' = [buffer EXCEPT ![e] = NoPayload]
    /\ calls' = [calls EXCEPT ![e].clear = @ + 1]
    /\ result' = [result EXCEPT ![e] = ServerFault]
    /\ path' = [path EXCEPT ![e] = "timeout"]
    /\ pc' = [pc EXCEPT ![e] = "exiting"]
    /\ UNCHANGED <<settings, request, body, handed, inbound, context, heap,
                   closed, released, wallet_ids, recvCtx, opened, opens,
                   accepted, lastDeliver>>

\* wait_response returns nothing: the wait timed out.
WaitTimesOut(e) ==
    /\ SessionWaitTimedOut(e)
    /\ AfterWait(e, NoPayload, "timeout")

\* Where CancelledError, raised at the await the task is suspended in, takes
\* the handler: out of the function before line 115, to __aexit__ inside the
\* session block.  Raised inside __aexit__ itself it ends the handler on the
\* path it was leaving by.
CancelPath ==
    [read |-> "cancelled_read", create_session |-> "cancelled_create_session",
     inject |-> "cancelled_inject", resolve |-> "cancelled_resolve",
     set_instance |-> "cancelled_set_instance", enter |-> "cancelled_enter",
     receive |-> "cancelled_receive", awaiting |-> "cancelled"]
AwaitsAtExit == {"exiting"}
CancelPoints ==
    AwaitsBeforeSession \cup AwaitsBeforeBlock \cup AwaitsInBlock \cup AwaitsAtExit

\* The handler task is cancelled (the connection dropped, the server shuts
\* down) at the await it is suspended in (lines 91-123 and the __aexit__ of
\* line 115); nothing shields a task from being cancelled again.  Before
\* the session block the handler just ends; inside it CancelledError leaves
\* through __aexit__.  Thrown into a suspended __aexit__ it ends the handler
\* there: the response, HTTPBadRequest or CancelledError that was on its way
\* out is replaced and what __aexit__ had still to do, the close, is not
\* done.
Cancel(e) ==
    /\ pc[e] \in CancelPoints
    /\ pc' = [pc EXCEPT ![e] = IF pc[e] \in AwaitsInBlock THEN "exiting" ELSE "done"]
    /\ path' = IF pc[e] \in AwaitsAtExit
               THEN path
               ELSE [path EXCEPT ![e] = CancelPath[pc[e]]]
    /\ result' = [result EXCEPT ![e] = Aborted]
    /\ UNCHANGED <<settings, request, body, handed, inbound, context, heap,
                   can_respond, closed, released, falls, buffer, wallet_ids,
                   calls, recvCtx, opened, accepted, lastDeliver, response,
                   opens>>

\* Line 115 (__aexit__) and, when nothing was returned or raised inside the
\* block, line 143.
ExitSession(e) ==
    /\ pc[e] = "exiting"
    /\ SessionClose(e)
    /\ pc' = [pc EXCEPT ![e] = "done"]
    /\ result' = [result EXCEPT ![e] = IF @ = NoResult THEN EmptyResponse(HTTP_OK) ELSE @]
    /\ UNCHANGED <<settings, request, body, handed, inbound, context, heap,
                   wallet_ids, path, calls, recvCtx, opened, accepted,
                   lastDeliver, response, opens>>

Next ==
    \E e \in Exchanges :
        \/ ReadReturns(e)
        \/ ReadRaises(e)
        \/ CreateSession(e)
        \/ CreateSessionRaises(e)
        \/ InjectReturns(e)
        \/ InjectRaises(e)
        \/ ResolveRaises(e)
        \/ \E ids \in CandidateLists : ResolveReturns(e, ids)
        \/ SetInstanceReturns(e)
        \/ SetInstanceRaises(e)
        \/ EnterSession(e)
        \/ ReceiveParseError(e)
        \/ \E d \in BOOLEAN : ReceiveReturns(e, d)
        \/ WaitReturns(e)
        \/ WaitTimesOut(e)
        \/ Cancel(e)
        \/ ExitSession(e)
        \/ \E p \in Payloads : DeliverAccepted(e, p)

\* A delivery that nobody takes changes nothing of the exchanges, so the
\* handlers are followed without it; SpecDeliver below follows it too and
\* observes its return value.
Spec == Init /\ [][Next]_vars

\* The same handlers under every plugin configuration, with a dispatcher
\* whose payloads are all the text "ack": what a handler does before the
\* session block and how it leaves the block do not depend on what the
\* payload is.  SpecDeliver below has every payload.
AckPayload == [type |-> "str", data |-> "ack"]

RoutingNext ==
    \E e \in Exchanges :
        \/ ReadReturns(e)
        \/ ReadRaises(e)
        \/ CreateSession(e)
        \/ CreateSessionRaises(e)
        \/ InjectReturns(e)
        \/ InjectRaises(e)
        \/ ResolveRaises(e)
        \/ \E ids \in CandidateLists : ResolveReturns(e, ids)
        \/ SetInstanceReturns(e)
        \/ SetInstanceRaises(e)
        \/ EnterSession(e)
        \/ ReceiveParseError(e)
        \/ \E d \in BOOLEAN : ReceiveReturns(e, d)
        \/ WaitReturns(e)
        \/ WaitTimesOut(e)
        \/ Cancel(e)
        \/ ExitSession(e)
        \/ DeliverAccepted(e, AckPayload)

SpecRouting == Init /\ [][RoutingNext]_vars

\* One exchange, followed from any request through the whole handler; the
\* other exchanges never arrive.
FirstExchange == CHOOSE e \in Exchanges : \A x \in Exchanges : e <= x
BodyInit ==
    \E req \in Requests :
        InitWith([e \in Exchanges |-> IF e = FirstExchange THEN req ELSE DefaultRequest])

BodyNext ==
    \/ ReadReturns(FirstExchange)
    \/ ReadRaises(FirstExchange)
    \/ CreateSession(FirstExchange)
    \/ CreateSessionRaises(FirstExchange)
    \/ InjectReturns(FirstExchange)
    \/ InjectRaises(FirstExchange)
    \/ ResolveRaises(FirstExchange)
    \/ \E ids \in CandidateLists : ResolveReturns(FirstExchange, ids)
    \/ SetInstanceReturns(FirstExchange)
    \/ SetInstanceRaises(FirstExchange)
    \/ EnterSession(FirstExchange)
    \/ ReceiveParseError(FirstExchange)
    \/ \E d \in BOOLEAN : ReceiveReturns(FirstExchange, d)
    \/ WaitReturns(FirstExchange)
    \/ WaitTimesOut(FirstExchange)
    \/ Cancel(FirstExchange)
    \/ ExitSession(FirstExchange)
    \/ \E p \in Payloads : DeliverAccepted(FirstExchange, p)
    \/ DeliverDropped(FirstExchange)

SpecBody == BodyInit /\ [][BodyNext]_vars

\* The exchanges under the event loop's scheduling, in a deployment with no
\* external plugins configured.  Each exchange's handler is one task:
\* whenever the call it awaits can complete (by returning or by raising, a
\* payload is buffered, or the wait's timeout has elapsed) the loop
\* eventually resumes it.  Deliveries and cancellations are the environment's and carry
\* no fairness; a delivery to a session that is not waiting changes nothing
\* the handler can see and is left out.
LiveInit == Init /\ settings.isNone

HandlerStep(e) ==
    \/ ReadReturns(e)
    \/ ReadRaises(e)
    \/ CreateSession(e)
    \/ CreateSessionRaises(e)
    \/ EnterSession(e)
    \/ ReceiveParseError(e)
    \/ \E d \in BOOLEAN : ReceiveReturns(e, d)
    \/ WaitReturns(e)
    \/ WaitTimesOut(e)
    \/ ExitSession(e)

LiveNext ==
    \E e \in Exchanges :
        \/ HandlerStep(e)
        \/ Cancel(e)
        \/ \E p \in Payloads : DeliverAccepted(e, p)

\* The same exchanges with every delivery attempt, taken or not, and no
\* fairness.
DeliverNext == LiveNext \/ \E e \in Exchanges : DeliverDropped(e)

SpecDeliver == LiveInit /\ [][DeliverNext]_vars

LiveSpec ==
    /\ LiveInit
    /\ [][LiveNext]_vars
    /\ \A e \in Exchanges : WF_vars(HandlerStep(e))

\* ---------------------------------------------------------------- claims

\* Exit paths that run through the session block, and those that end before.
RepliedPaths == {"replied", "empty_reply"}
AfterWaitPaths == RepliedPaths \cup {"timeout"}
ResolutionFailures == {"resolver_error", "no_candidate", "store_error"}

\* Exit paths on which the handler leaves the session block with an answer of
\* its own (a response, or HTTPBadRequest), and the exchanges that lost it:
\* their task was cancelled while suspended in __aexit__, so the peer, whose
\* connection is gone, gets no status at all.
AnsweredPaths == AfterWaitPaths \cup {"no_response", "parse_error"}
CancelledAtExit(e) == path[e] \in AnsweredPaths /\ result[e] = Aborted

\* The wallet-handler plugin is listed in the configured external plugins.
PluginListed ==
    \E i \in DOMAIN settings.items : settings.items[i] = WalletHandlerPlugin

C2_ResolutionFailureCloses ==
    \A e \in Exchanges :
        (pc[e] = "done" /\ path[e] \in ResolutionFailures)
            => (closed[e] /\ released[e] = 1 /\ calls[e].receive = 0)

\* C3 (as claimed): can_respond starts true and has changed true -> false
\* exactly once when the exchange has ended, on every path, the tenant
\* resolution failures included; it is never true again afterwards.
C3_CanRespondFallsOnce ==
    \A e \in Exchanges :
        /\ falls[e] <= 1
        /\ (falls[e] = 0) = can_respond[e]
        /\ pc[e] = "done" => (~can_respond[e] /\ falls[e] = 1)

\* C4: once wait_response has returned (payload or not) can_respond is false
\* and the response is cleared, no delivery is accepted afterwards (a timed
\* out exchange never accepts one), and an exchange accepts at most one
\* delivery in all, under every interleaving with the dispatcher.
C4_NoDeliveryAfterWait ==
    \A e \in Exchanges :
        /\ accepted[e] <= 1
        /\ path[e] \in AfterWaitPaths => (~can_respond[e] /\ buffer[e] = NoPayload)
        /\ path[e] = "timeout" => accepted[e] = 0
        /\ path[e] \in RepliedPaths => accepted[e] = 1
        /\ result[e].kind \in {"bytes", "text"} => accepted[e] = 1

C4_Witness ==
    \E e \in Exchanges :
        /\ pc[e] = "exiting" /\ path[e] = "replied" /\ accepted[e] = 1
        /\ ENABLED DeliverDropped(e)
        /\ \A p \in Payloads : ~ENABLED DeliverAccepted(e, p)

C6_RoutingDisabledKeepsBase ==
    ~PluginListed =>
        /\ opened = {}
    /\ opens = [t \in Tenants |-> 0]
        /\ \A e \in Exchanges :
             /\ calls[e].resolve = 0 /\ calls[e].set_instance = 0
             /\ context[e] = BaseCtx /\ recvCtx[e] = BaseCtx
             /\ ~heap[CopyOf(e)].alloc

C6_Witness ==
    /\ ~PluginListed
    /\ \E e \in Exchanges :
         pc[e] = "done" /\ calls[e].receive = 1 /\ recvCtx[e] = BaseCtx

\* C7: the shared default context keeps its initial contents for ever; a
\* tenant is only ever bound to an exchange's own copy, which no other
\* exchange refers to, and a copy holds nothing but its own exchange's
\* tenant, also next to exchanges whose resolution or parsing failed.
C7_BaseContextUntouched ==
    /\ heap[BaseCtx] = FreshBase
    /\ \A e \in Exchanges :
         /\ context[e] \in {BaseCtx, CopyOf(e)}
         /\ heap[CopyOf(e)].wallet # NoWallet =>
               /\ context[e] = CopyOf(e)
               /\ wallet_ids[e] # <<>>
               /\ heap[CopyOf(e)].wallet = wallet_ids[e][1]

C7_Witness ==
    \E e1, e2 \in Exchanges :
        /\ heap[context[e1]].wallet = "w1" /\ pc[e1] = "done"
        /\ heap[context[e2]].wallet = "w2" /\ path[e2] = "parse_error"

\* C8: with routing enabled a tenant is bound and its store opened only
\* after the resolver returned a non-empty list, and it is the first
\* candidate; set_instance is called at most once per exchange, so at most
\* one tenant context is bound to it.
C8_FirstCandidateBound ==
    /\ \A e \in Exchanges :
         /\ calls[e].set_instance <= 1
         /\ calls[e].set_instance = 1 => (calls[e].resolve = 1 /\ wallet_ids[e] # <<>>)
         /\ heap[context[e]].wallet # NoWallet =>
               /\ calls[e].set_instance = 1
               /\ heap[context[e]].wallet = wallet_ids[e][1]
         /\ wallet_ids[e] = <<>> => heap[context[e]].wallet = NoWallet
    /\ \A t \in opened :
         \E e \in Exchanges :
             calls[e].set_instance = 1 /\ wallet_ids[e] # <<>> /\ wallet_ids[e][1] = t

C8_Witness ==
    \E e1, e2 \in Exchanges :
        /\ wallet_ids[e1] = <<"w2", "w1">> /\ heap[context[e1]].wallet = "w2"
        /\ "w2" \in opened
        /\ path[e2] = "no_candidate" /\ heap[context[e2]].wallet = NoWallet

\* C9: an exchange whose receive raised MessageParseError answers with the
\* bad-request status and no other (a handler cancelled in the teardown
\* answers nothing), never calls wait_response, and, its teardown done, is
\* closed with its resources released once.
C9_ParseErrorIsBadRequest ==
    \A e \in Exchanges :
        path[e] = "parse_error" =>
            /\ result[e] \in {EmptyResponse(HTTP_BAD_REQUEST), Aborted}
            /\ pc[e] = "exiting" => result[e] = EmptyResponse(HTTP_BAD_REQUEST)
            /\ calls[e].wait = 0 /\ calls[e].clear = 0
            /\ pc[e] \in {"exiting", "done"}
            /\ (pc[e] = "done" /\ ~CancelledAtExit(e)) => (closed[e] /\ released[e] = 1)

C9_Witness ==
    \E e \in Exchanges :
        /\ pc[e] = "done" /\ path[e] = "parse_error"
        /\ result[e].status = HTTP_BAD_REQUEST /\ closed[e]

\* C10: wait_response is called at most once, only after receive returned
\* a message whose receipt asks for a direct response; for a message that
\* does not ask, the handler neither waits nor clears the response and the
\* answer, unless the task is cancelled before it is given, is the empty
\* success status.
C10_WaitOnlyWhenRequested ==
    \A e \in Exchanges :
        /\ calls[e].wait <= 1 /\ calls[e].clear <= calls[e].wait
        /\ calls[e].wait = 1 =>
              /\ calls[e].receive = 1
              /\ inbound[e].parsed /\ inbound[e].direct_response_requested
        /\ (inbound[e].parsed /\ ~inbound[e].direct_response_requested) =>
              /\ calls[e].wait = 0 /\ calls[e].clear = 0
              /\ path[e] = "no_response"
              /\ pc[e] = "exiting" => result[e] = NoResult
              /\ pc[e] = "done" => result[e] \in {EmptyResponse(HTTP_OK), Aborted}

C10_Witness ==
    \E e \in Exchanges :
        /\ pc[e] = "done" /\ path[e] = "no_response"
        /\ inbound[e].parsed /\ ~inbound[e].direct_response_requested
        /\ result[e] = EmptyResponse(HTTP_OK) /\ calls[e].wait = 0

\* C11: an exchange whose wait timed out got no payload (none was accepted,
\* wait_response returned nothing) and is answered with the empty success
\* status, never with a client or server fault; only a task cancelled before
\* the answer is given answers nothing.
EmptyPayloads == {p \in Payloads : p.data = ""}
C11_TimeoutIsEmptySuccess ==
    \A e \in Exchanges :
        path[e] = "timeout" =>
            /\ response[e] = NoPayload /\ accepted[e] = 0
            /\ pc[e] = "exiting" => result[e] = NoResult
            /\ pc[e] = "done" => result[e] \in {EmptyResponse(HTTP_OK), Aborted}
            /\ pc[e] \in {"exiting", "done"}

C11_Witness ==
    \E e \in Exchanges :
        /\ pc[e] = "done" /\ path[e] = "timeout"
        /\ result[e] = EmptyResponse(HTTP_OK) /\ accepted[e] = 0

\* C12 (as claimed): when a payload was delivered in time and the handler
\* has answered, the answer is the success status with exactly that payload
\* as body: bytes as a byte body tagged application/ssi-agent-wire, anything
\* else as a text body tagged application/json.
C12_ReplyCarriesPayload ==
    \A e \in Exchanges :
        (pc[e] = "done" /\ response[e] \in Payloads /\ result[e] # Aborted) =>
            /\ result[e].status = HTTP_OK
            /\ result[e].body = response[e].data
            /\ response[e].type = "bytes" =>
                 (result[e].kind = "bytes" /\ result[e].ctype = WireContentType)
            /\ response[e].type # "bytes" =>
                 (result[e].kind = "text" /\ result[e].ctype = JsonContentType)

\* C19: a payload that arrived in time but is empty (empty bytes or empty
\* text) is answered like a timeout, with the empty success status, no body
\* and no content type (or, the task cancelled in the teardown, not at all),
\* while can_respond is false and the response cleared.
C19_EmptyPayloadLikeTimeout ==
    \A e \in Exchanges :
        (pc[e] \in {"exiting", "done"} /\ response[e] \in EmptyPayloads) =>
            /\ accepted[e] = 1
            /\ ~can_respond[e] /\ buffer[e] = NoPayload /\ calls[e].clear = 1
            /\ pc[e] = "exiting" => result[e] = NoResult
            /\ pc[e] = "done" => result[e] \in {EmptyResponse(HTTP_OK), Aborted}

C19_Witness ==
    \E e1, e2 \in Exchanges :
        /\ pc[e1] = "done" /\ response[e1] = [type |-> "bytes", data |-> ""]
        /\ result[e1] = EmptyResponse(HTTP_OK)
        /\ pc[e2] = "done" /\ response[e2] = [type |-> "str", data |-> ""]
        /\ result[e2] = EmptyResponse(HTTP_OK)

\* C20: the handler sets can_respond false and clears the response exactly
\* on the paths where wait_response returned; when no direct response was
\* requested, on a parse error and on cancellation inside the block it does
\* neither.  There can_respond and the stored response change by the
\* session's close and by nothing else: as long as the session is not
\* closed can_respond is still true and a payload taken is still held.
C20_OnlyAfterWaitHandlerClears ==
    \A e \in Exchanges :
        /\ path[e] \in AfterWaitPaths =>
             /\ calls[e].clear = 1 /\ ~can_respond[e] /\ falls[e] = 1
             /\ buffer[e] = NoPayload
        /\ path[e] \in {"no_response", "parse_error", "cancelled", "cancelled_receive"} =>
             /\ calls[e].clear = 0
             /\ ~closed[e] =>
                  /\ can_respond[e] /\ falls[e] = 0
                  /\ accepted[e] = 1 => buffer[e] # NoPayload
             /\ closed[e] =>
                  (pc[e] = "done" /\ ~can_respond[e] /\ falls[e] = 1 /\ buffer[e] = NoPayload)

C20_Witness ==
    \E e1, e2 \in Exchanges :
        /\ pc[e1] = "exiting" /\ path[e1] = "cancelled" /\ can_respond[e1]
        /\ buffer[e1] # NoPayload /\ calls[e1].clear = 0
        /\ pc[e2] = "done" /\ path[e2] = "no_response" /\ closed[e2]
        /\ ~can_respond[e2] /\ calls[e2].clear = 0

C16_StepsInOrder ==
    \A e \in Exchanges :
        /\ pc[e] \in AwaitsBeforeSession \cup AwaitsBeforeBlock =>
              (calls[e].receive = 0 /\ calls[e].wait = 0)
        /\ pc[e] = "receive" => (calls[e].wait = 0 /\ ~inbound[e].parsed)
        /\ calls[e].wait = 1 => (calls[e].receive = 1 /\ inbound[e].parsed)
        /\ calls[e].receive = 1 =>
              /\ recvCtx[e] = context[e]
              /\ PluginListed =>
                    /\ calls[e].resolve = 1 /\ calls[e].set_instance = 1
                    /\ recvCtx[e] = CopyOf(e)
                    /\ heap[recvCtx[e]].wallet = wallet_ids[e][1]
              /\ ~PluginListed => heap[recvCtx[e]].wallet = NoWallet

C16_Witness ==
    \E e \in Exchanges :
        /\ PluginListed /\ pc[e] = "awaiting"
        /\ recvCtx[e] = CopyOf(e) /\ heap[recvCtx[e]].wallet = "w2"

\* C17: an exchange has at most one waiter: wait_response is entered at most
\* once, by the exchange's own handler task, before any exit path was taken,
\* on a session that is open and may still respond.
Waiters(e) == IF pc[e] = "awaiting" THEN {e} ELSE {}
C17_AtMostOneWaiter ==
    \A e \in Exchanges :
        /\ Cardinality(Waiters(e)) <= calls[e].wait
        /\ calls[e].wait <= 1
        /\ pc[e] = "awaiting" => (path[e] = "none" /\ ~closed[e] /\ can_respond[e])

C17_Witness ==
    \E e1, e2 \in Exchanges :
        /\ e1 # e2
        /\ pc[e1] = "awaiting" /\ calls[e1].wait = 1
        /\ pc[e2] = "awaiting" /\ calls[e2].wait = 1

\* C18: the body is the request's content read as text exactly when the
\* content-type header, cut at the first ';' and compared without regard to
\* case, is application/json, and as bytes otherwise (also without a header);
\* that one value is what the resolver and then receive are given.
SameLetter(a, b) ==
    \/ a = b
    \/ \E i \in 1..Len(UpperLetters) : {a, b} = {UpperLetters[i], LowerLetters[i]}
ReadReturned(e) == pc[e] # ReadPc /\ path[e] \notin {"read_error", "cancelled_read"}
IsJsonType(t) ==
    \E n \in 0..Len(t) :
        /\ n = Len(ApplicationJson)
        /\ \A i \in 1..n : t[i] # Semicolon /\ SameLetter(t[i], ApplicationJson[i])
        /\ n = Len(t) \/ t[n + 1] = Semicolon
C18_BodyReadByContentType ==
    \A e \in Exchanges :
        /\ ~ReadReturned(e) => (body[e] = NoBody /\ handed[e] = NothingHanded)
        /\ ReadReturned(e) =>
              /\ body[e].data = request[e].content
              /\ body[e].type = (IF IsJsonType(HeaderGet(request[e])) THEN "str" ELSE "bytes")
              /\ handed[e].resolver = (IF calls[e].resolve = 1 THEN body[e] ELSE NoBody)
              /\ handed[e].receive = (IF calls[e].receive = 1 THEN body[e] ELSE NoBody)

C18_Witness ==
    /\ request[FirstExchange].header.present
    /\ request[FirstExchange].header.value =
          <<"A", "p", "p", "l", "i", "c", "a", "t", "i", "o", "n", "/", "J", "S", "O", "N">>
    /\ body[FirstExchange].type = "str"
    /\ handed[FirstExchange].resolver = body[FirstExchange]
    /\ handed[FirstExchange].receive = body[FirstExchange]

====
